---- MODULE Spec2Model ----
(***************************************************************************)
(* Picosniff: the attack detector (attack_detection.py), the packet parser *)
(* that feeds it (packet_parser.py), the alert display with its cooldown   *)
(* (Picosniff.py) and the session commands (tui_handler.py).               *)
(*                                                                         *)
(* Time is counted in ticks, TicksPerSecond ticks to a second; one handler *)
(* runs within one tick, so every time.time() it reads returns the same    *)
(* value.  The clock never runs backwards.                                 *)
(*                                                                         *)
(* Python floats are modelled by exact decimal fractions: a number is a    *)
(* record [k, d], d the base-100 digits (lowest first) of an integer N,    *)
(* and the number is N / 100^k.  Every constant of the detector (0.2, 0.3, *)
(* 5, 2, 3) is a finite decimal, so sums and products are exact.           *)
(***************************************************************************)
EXTENDS Integers, Sequences, FiniteSets, TLC

\* ------------------------------------------------------------------ bounds

\* Clock resolution.
TicksPerSecond == 4
\* Commands typed, packets captured, timer calls and packets a capture loop
\* lets through ahead of a command in one run, scripted traffic aside.
MaxSteps == 3
\* Commands and packets that may follow the start of a scripted flood.
MaxTail == 1
\* Length of a scripted flood (packets sent back to back).
FloodLen == 26
\* Queries of a quiet second source sent in the middle of a DNS flood.
QuietLen == 2
\* Steady traffic: highest rate (events per second) and duration in seconds.
MaxSteadyRate == 3
SteadySeconds == 60
\* SYNs of the flood sent to a detector with other parameters.
TunedLen == 20
\* Capture loops alive at one time.
MaxLoops == 2
\* Sustained traffic: a burst of BurstLen SYNs at once, then two SYNs a tick
\* for SustainedTicks ticks; the baseline counts as settled after
\* SettleEvents events of an unchanged count.
BurstLen == 40
SustainedTicks == 34
SettleEvents == 10
\* Commands, timer calls and packets of a run that follows one flood through
\* the sessions after it.
SessionSteps == 4

\* ------------------------------------------------- exact decimal arithmetic

Base == 100

Zeros(j) == [i \in 1..j |-> 0]

\* The digit at place i, 0 beyond the ends.
At(d, i) == IF i >= 1 /\ i <= Len(d) THEN d[i] ELSE 0

DMax(i, j) == IF i >= j THEN i ELSE j

\* d without its leading (highest) zero digits.
StripHigh(d) ==
    LET nz == {i \in 1..Len(d) : d[i] # 0}
    IN  IF nz = {} THEN <<>>
        ELSE SubSeq(d, 1, CHOOSE m \in nz : \A j \in nz : j <= m)

\* One step of carrying: every place keeps its low digit and receives the
\* overflow of the place below.
CarryOnce(x) ==
    [i \in 1..(Len(x) + 1) |-> (At(x, i) % Base) + (At(x, i - 1) \div Base)]

\* The carries that remain once every place holds less than 2 * Base are 0 or
\* 1, and the carry into place i is 1 exactly when a place below overflows
\* and every place between is Base - 1.
CarryInto(y, i) ==
    \E j \in 1..(i - 1) : y[j] >= Base /\ \A l \in (j + 1)..(i - 1) : y[l] = Base - 1

CarryAll(y) ==
    [i \in 1..(Len(y) + 1) |-> (At(y, i) + (IF CarryInto(y, i) THEN 1 ELSE 0)) % Base]

\* Digits proper from places that hold up to a few thousand each.
Carried(x) == StripHigh(CarryAll(CarryOnce(CarryOnce(x))))

AddLimbs(a, b) == Carried([i \in 1..DMax(Len(a), Len(b)) |-> At(a, i) + At(b, i)])

\* a - b for a >= b, digit by digit with borrow.
RECURSIVE SubLimbs(_, _, _)
SubLimbs(a, b, borrow) ==
    IF a = <<>> THEN <<>>
    ELSE LET x == a[1] - (IF b = <<>> THEN 0 ELSE b[1]) - borrow
         IN  <<(x + Base) % Base>> \o SubLimbs(Tail(a),
                                               IF b = <<>> THEN <<>> ELSE Tail(b),
                                               IF x < 0 THEN 1 ELSE 0)

\* The sum over j of a[i - j + 1] * b[j]: place i of the product, before carrying.
RECURSIVE Column(_, _, _, _)
Column(a, b, i, j) ==
    IF j > Len(b) THEN 0 ELSE At(a, i - j + 1) * b[j] + Column(a, b, i, j + 1)

\* Long multiplication; b is the shorter factor, a few digits at most.
MulLimbs(a, b) ==
    IF a = <<>> \/ b = <<>> THEN <<>>
    ELSE Carried([i \in 1..(Len(a) + Len(b) - 1) |-> Column(a, b, i, 1)])

\* a >= b for digit strings without leading zeros: the highest place where
\* they differ decides.
GELimbs(a, b) ==
    IF Len(a) # Len(b) THEN Len(a) > Len(b)
    ELSE \/ a = b
         \/ \E i \in 1..Len(a) : a[i] > b[i] /\ \A j \in (i + 1)..Len(a) : a[j] = b[j]

RECURSIVE LimbsToInt(_)
LimbsToInt(d) == IF d = <<>> THEN 0 ELSE d[1] + Base * LimbsToInt(Tail(d))

\* Canonical form: no leading zero digit, no trailing zero digit after the point.
DNorm(x) ==
    LET Canon(d) ==
            IF d = <<>> THEN [k |-> 0, d |-> <<>>]
            ELSE LET low  == CHOOSE m \in 1..Len(d) :
                                 d[m] # 0 /\ \A j \in 1..(m - 1) : d[j] = 0
                     drop == IF low - 1 < x.k THEN low - 1 ELSE x.k
                 IN  [k |-> x.k - drop, d |-> SubSeq(d, drop + 1, Len(d))]
    IN  Canon(StripHigh(x.d))

\* The decimal n / 100^k for a small natural n.
Dec(n, k) == DNorm([k |-> k, d |-> Carried(<<n>>)])

DInt(n) == Dec(n, 0)

\* The digits of x with the point moved to position k >= x.k.
Align(x, k) == Zeros(k - x.k) \o x.d

DAdd(x, y) ==
    LET k == DMax(x.k, y.k)
    IN  DNorm([k |-> k, d |-> AddLimbs(Align(x, k), Align(y, k))])

\* x - y, for x >= y.
DSub(x, y) ==
    LET k == DMax(x.k, y.k)
    IN  DNorm([k |-> k, d |-> SubLimbs(Align(x, k), Align(y, k), 0)])

DMul(x, y) ==
    DNorm([k |-> x.k + y.k,
           d |-> IF Len(x.d) >= Len(y.d) THEN MulLimbs(x.d, y.d) ELSE MulLimbs(y.d, x.d)])

DGE(x, y) ==
    LET k == DMax(x.k, y.k)
    IN  GELimbs(StripHigh(Align(x, k)), StripHigh(Align(y, k)))

\* x in hundredths, rounded half up: the number "{:.2f}" prints, times 100.
Hundredths(x) ==
    IF x.k = 0 THEN Base * LimbsToInt(x.d)
    ELSE IF x.k = 1 THEN LimbsToInt(x.d)
    ELSE LET cut  == x.k - 1
             full == x.d \o Zeros(DMax(0, cut - Len(x.d)))
             kept == LimbsToInt(SubSeq(full, cut + 1, Len(full)))
         IN  IF full[cut] >= Base \div 2 THEN kept + 1 ELSE kept

\* --------------------------------------------------------------- packets

\* Option values: None is the empty sequence, Some(x) a sequence of one.
None == <<>>
Some(x) == <<x>>

SrcA == "10.0.0.5"
SrcB == "10.0.0.9"
Victim == "10.0.0.1"
Sources == {SrcA, SrcB}
Addresses == {SrcA, SrcB, Victim}

\* The list of line 83 with dns before syn.
EventTypesDnsFirst == <<"dns", "syn">>

\* for event_type in ['syn', 'dns']
EventTypes == <<"syn", "dns">>

\* The layers parse_packet asks for, in the order it asks.
LayerOrder == <<"IP", "TCP", "UDP", "DNS", "DHCP", "HTTP", "NTP", "ARP">>

\* A dissected packet: its layers, the IP source, the TCP flags, the DNS qr
\* bit and the ARP sender addresses.
Pkt(layers, src, flags, qr, hwsrc, psrc) ==
    [layers |-> layers, src |-> src, dst |-> Victim, flags |-> flags, qr |-> qr,
     hwsrc |-> hwsrc, psrc |-> psrc]

PureSyn(s)  == Pkt({"IP", "TCP", "Raw"}, s, {"S"}, 0, "", "")
SynAck(s)   == Pkt({"IP", "TCP"}, s, {"S", "A"}, 0, "", "")
DnsQuery(s) == Pkt({"IP", "UDP", "DNS"}, s, {}, 0, "", "")
DnsResp(s)  == Pkt({"IP", "UDP", "DNS"}, s, {}, 1, "", "")
SynDns(s)   == Pkt({"IP", "TCP", "DNS"}, s, {"S"}, 0, "", "")
UdpData(s)  == Pkt({"IP", "UDP", "Raw"}, s, {}, 0, "", "")
\* A TCP SYN and a DNS query carried by no IP layer (IPv6, say).
SynNoIP     == Pkt({"TCP"}, "", {"S"}, 0, "", "")
DnsNoIP     == Pkt({"UDP", "DNS"}, "", {}, 0, "", "")
ArpReply(mac, ip) == Pkt({"ARP"}, "", {}, 0, mac, ip)

Packets ==
    {PureSyn(SrcA), PureSyn(SrcB), SynAck(SrcA), DnsQuery(SrcA), DnsResp(SrcA),
     SynDns(SrcA), SynNoIP, DnsNoIP,
     ArpReply("aa:01", "192.168.0.1"), ArpReply("aa:01", "192.168.0.2")}

\* ------------------------------------------------------------- the detector

\* The parameters with the syn multiplier as large as the dns one.
InitDetectorSynTimesThree ==
    [arp_map               |-> {},
     event_history         |-> [t \in {"syn", "dns"} |-> [s \in Sources |-> <<>>]],
     time_window           |-> 5,
     threshold_multipliers |-> [syn |-> 3, dns |-> 3],
     baseline_rates        |-> [syn |-> DInt(2), dns |-> DInt(3)],
     ewma_alpha            |-> Dec(20, 1),
     decay_factor          |-> Dec(30, 1)]

\* AttackDetector.__init__
InitDetector ==
    [arp_map               |-> {},
     event_history         |-> [t \in {"syn", "dns"} |-> [s \in Sources |-> <<>>]],
     time_window           |-> 5,
     threshold_multipliers |-> [syn |-> 2, dns |-> 3],
     baseline_rates        |-> [syn |-> DInt(2), dns |-> DInt(3)],
     ewma_alpha            |-> Dec(20, 1),
     decay_factor          |-> Dec(30, 1)]

\* The window in ticks.
WindowTicks(det) == det.time_window * TicksPerSecond

\* while events and current_time - events[0] > self.time_window: events.popleft()
RECURSIVE PopExpired(_, _, _)
PopExpired(events, current_time, window) ==
    IF events # <<>> /\ current_time - events[1] > window
    THEN PopExpired(Tail(events), current_time, window)
    ELSE events

\* A cleanup that empties every deque of the type, the new event included.
CleanupEventsEverything(det, event_type, current_time) ==
    [det EXCEPT !.event_history[event_type] = [s \in Sources |-> <<>>]]

\* A cleanup that visits the deques of both types.
CleanupEventsOfAllTypes(det, event_type, current_time) ==
    [det EXCEPT !.event_history =
        [t \in {"syn", "dns"} |->
            [s \in Sources |-> PopExpired(det.event_history[t][s], current_time,
                                          WindowTicks(det))]]]

\* A cleanup that visits the deque of the packet's source only.
CleanupEventsOfLastSource(det, event_type, current_time) ==
    [det EXCEPT !.event_history[event_type] =
        [s \in Sources |->
            IF det.event_history[event_type][s] # <<>>
               /\ det.event_history[event_type][s][Len(det.event_history[event_type][s])]
                      = current_time
            THEN PopExpired(det.event_history[event_type][s], current_time,
                            WindowTicks(det))
            ELSE det.event_history[event_type][s]]]

\* _cleanup_events: every source's deque of the type loses its expired head.
CleanupEvents(det, event_type, current_time) ==
    [det EXCEPT !.event_history[event_type] =
        [s \in Sources |-> PopExpired(det.event_history[event_type][s], current_time,
                                      WindowTicks(det))]]

\* The rate over the 5 seconds of the source, whatever time_window is.
RateOverFiveSeconds(count, time_window) == Dec(count * (Base \div 5), 1)

\* len(...) / self.time_window, exact when time_window divides 100.
Rate(count, time_window) == Dec(count * (Base \div time_window), 1)

\* The baseline left as it is: no decay.
DecayBaselineNone(baseline, decay_factor) == baseline

\* self.baseline_rates[event_type] *= (1 - self.decay_factor)
DecayBaseline(baseline, decay_factor) == DMul(baseline, DSub(DInt(1), decay_factor))

\* (self.ewma_alpha * rate) + ((1 - self.ewma_alpha) * self.baseline_rates[event_type])
BlendBaseline(baseline, rate, ewma_alpha) ==
    DAdd(DMul(ewma_alpha, rate), DMul(DSub(DInt(1), ewma_alpha), baseline))

\* The two assignments in the other order: blend first, decay second.
UpdateBaselineBlendFirst(det, event_type, rate) ==
    DecayBaseline(BlendBaseline(det.baseline_rates[event_type], rate, det.ewma_alpha),
                  det.decay_factor)

\* The two assignments of the EWMA update, in the order of the code.
UpdateBaseline(det, event_type, rate) ==
    LET decayed == DecayBaseline(det.baseline_rates[event_type], det.decay_factor)
    IN  BlendBaseline(decayed, rate, det.ewma_alpha)

\* The conditions without the test of the qr bit: every DNS packet an event.
QualifiesAnyDns(pkt, event_type) ==
    \/ event_type = "syn" /\ "TCP" \in pkt.layers /\ "S" \in pkt.flags
    \/ event_type = "dns" /\ "DNS" \in pkt.layers

\* The condition under which a packet is an event of the type.
Qualifies(pkt, event_type) ==
    \/ event_type = "syn" /\ "TCP" \in pkt.layers /\ "S" \in pkt.flags
    \/ event_type = "dns" /\ "DNS" \in pkt.layers /\ pkt.qr = 0

\* The comparison of line 70 the wrong way round.
CrossesThresholdReversed(rate, threshold) == DGE(threshold, rate)

\* rate >= threshold
CrossesThreshold(rate, threshold) == DGE(rate, threshold)

\* A _detect_flood that decays the baseline before it reads packet[IP].
DetectFloodDecaysFirst(det, pkt, event_type, current_time) ==
    IF ~Qualifies(pkt, event_type)
    THEN [det |-> det, msg |-> None, raised |-> FALSE]
    ELSE IF "IP" \notin pkt.layers
    THEN [det    |-> [det EXCEPT !.baseline_rates[event_type] =
                                    DecayBaseline(@, det.decay_factor)],
          msg    |-> None,
          raised |-> TRUE]
    ELSE LET source == pkt.src
             Decide(cleaned, rate, baseline) ==
                 [det    |-> [cleaned EXCEPT !.baseline_rates[event_type] = baseline],
                  msg    |-> IF CrossesThreshold(rate,
                                   DMul(baseline,
                                        DInt(cleaned.threshold_multipliers[event_type])))
                             THEN Some([type |-> event_type, source |-> source,
                                        rate100 |-> Hundredths(rate)])
                             ELSE None,
                  raised |-> FALSE]
             Rated(cleaned, rate) ==
                 Decide(cleaned, rate, UpdateBaseline(cleaned, event_type, rate))
             Counted(cleaned) ==
                 IF cleaned.time_window = 0
                 THEN [det |-> cleaned, msg |-> None, raised |-> TRUE]
                 ELSE Rated(cleaned, Rate(Len(cleaned.event_history[event_type][source]),
                                          cleaned.time_window))
         IN  Counted(CleanupEvents(
                 [det EXCEPT !.event_history[event_type][source] = Append(@, current_time)],
                 event_type, current_time))

\* _detect_flood: the detector afterwards, the message (or None) and whether
\* it raised: packet[IP] on a packet without IP layer, before anything is
\* changed, or the division by a time_window of 0, after the append and the
\* cleanup.
DetectFlood(det, pkt, event_type, current_time) ==
    IF ~Qualifies(pkt, event_type)
    THEN [det |-> det, msg |-> None, raised |-> FALSE]
    ELSE IF "IP" \notin pkt.layers
    THEN [det |-> det, msg |-> None, raised |-> TRUE]
    ELSE LET source == pkt.src
             Decide(cleaned, rate, baseline) ==
                 [det    |-> [cleaned EXCEPT !.baseline_rates[event_type] = baseline],
                  msg    |-> IF CrossesThreshold(rate,
                                   DMul(baseline,
                                        DInt(cleaned.threshold_multipliers[event_type])))
                             THEN Some([type |-> event_type, source |-> source,
                                        rate100 |-> Hundredths(rate)])
                             ELSE None,
                  raised |-> FALSE]
             Rated(cleaned, rate) ==
                 Decide(cleaned, rate, UpdateBaseline(cleaned, event_type, rate))
             Counted(cleaned) ==
                 IF cleaned.time_window = 0
                 THEN [det |-> cleaned, msg |-> None, raised |-> TRUE]
                 ELSE Rated(cleaned, Rate(Len(cleaned.event_history[event_type][source]),
                                          cleaned.time_window))
         IN  Counted(CleanupEvents(
                 [det EXCEPT !.event_history[event_type][source] = Append(@, current_time)],
                 event_type, current_time))

\* if rate >= 5.0, the rate being the one printed in the message.
MinAlertRate == 5

\* The filter with > in place of >=.
PassesFilterStrict(msg) == msg.rate100 > MinAlertRate * Base

\* No filter: every message of _detect_flood is returned.
PassesFilterAlways(msg) == msg.rate100 >= 0

\* The filter set one event a second too low.
PassesFilterFromFour(msg) == msg.rate100 >= (MinAlertRate - 1) * Base

PassesFilter(msg) == msg.rate100 >= MinAlertRate * Base

\* detect_attacks: the event types in order, the first message that passes the
\* filter is returned with the time since start_time.
RECURSIVE DetectFrom(_, _, _, _, _)
DetectFrom(i, det, pkt, start_time, current_time) ==
    IF i > Len(EventTypes)
    THEN [det |-> det, ret |-> None, raised |-> FALSE]
    ELSE LET Go(r) ==
                 IF r.raised THEN [det |-> r.det, ret |-> None, raised |-> TRUE]
                 ELSE IF r.msg # None /\ PassesFilter(r.msg[1])
                 THEN [det |-> r.det,
                       ret |-> Some([type |-> r.msg[1].type, source |-> r.msg[1].source,
                                     rate100 |-> r.msg[1].rate100,
                                     relative_time |-> current_time - start_time]),
                       raised |-> FALSE]
                 ELSE DetectFrom(i + 1, r.det, pkt, start_time, current_time)
         IN  Go(DetectFlood(det, pkt, EventTypes[i], current_time))

DetectAttacks(det, pkt, start_time, current_time) ==
    DetectFrom(1, det, pkt, start_time, current_time)

\* --------------------------------------------------------------- the state

VARIABLES
    now,                \* the clock, in ticks
    detector,           \* parser.attack_detector
    parser,             \* start_time, packet_counter, packet_counts, ip_distribution
    app,                \* sniffing_active, last_message_time, the panes, the two logs
    handler,            \* CommandHandler.current_interface and the capture loops
    widgets,            \* PacketFlowPlot and IPDistributionTable
    env,                \* the traffic still to arrive and what the user may still type
    last                \* the last operation: its input, what it saw, what it returned

vars == <<now, detector, parser, app, handler, widgets, env, last>>

Protocols == {"IP", "TCP", "UDP", "DNS", "DHCP", "HTTP", "NTP", "ARP"}

\* settings.DEFAULT_COLORS
DEFAULT_COLORS == {"IP", "TCP", "UDP", "DNS", "DHCP", "HTTP", "NTP"}

\* PacketParser.__init__ (without the detector, which is its own variable)
InitParser(t) ==
    [start_time      |-> t,
     packet_counter  |-> 0,
     ip_distribution |-> [a \in Addresses |-> 0],
     packet_counts   |-> [l \in Protocols |-> 0]]

\* ------------------------------------------------------------ parse_packet

\* handle_payload: the lines it writes for one layer.
HandlePayload(pkt, protocol, efficient_mode) ==
    IF efficient_mode THEN <<>>
    ELSE IF "Raw" \in pkt.layers THEN <<"hexdump">>
    ELSE IF protocol \in {"DNS", "DHCP", "HTTP", "NTP"} THEN <<protocol \o " details">>
    ELSE <<>>

\* Whether the handler of the layer raises after it has counted the packet:
\* DEFAULT_COLORS has no 'ARP' key, and the efficient summaries read packet[IP].
LayerRaises(pkt, layer, efficient_mode) ==
    \/ layer \notin DEFAULT_COLORS
    \/ efficient_mode /\ layer \in {"TCP", "UDP", "DNS", "DHCP", "HTTP", "NTP"}
                      /\ "IP" \notin pkt.layers

\* A handler that adds to packet_counter only once its summary is written, so
\* that a layer that raises is counted in packet_counts alone.
HandleLayerCountsLast(st, pkt, layer, efficient_mode) ==
    IF st.raised \/ layer \notin pkt.layers
    THEN st
    ELSE LET counted == [st.parser EXCEPT !.packet_counts[layer] = @ + 1]
             spread  == IF layer = "IP"
                        THEN [counted EXCEPT
                                !.ip_distribution[pkt.src] = @ + 1,
                                !.ip_distribution[pkt.dst] = @ + 1]
                        ELSE counted
         IN  IF LayerRaises(pkt, layer, efficient_mode)
             THEN [parser |-> spread, out |-> st.out, raised |-> TRUE]
             ELSE [parser |-> [spread EXCEPT !.packet_counter = @ + 1],
                   out    |-> st.out \o <<layer>> \o
                              (IF layer = "HTTP"
                               THEN (IF efficient_mode THEN <<>> ELSE <<"HTTP details">>)
                               ELSE HandlePayload(pkt, layer, efficient_mode)),
                   raised |-> FALSE]

\* One _handle_<layer>_layer: st is [parser, out, raised].
HandleLayer(st, pkt, layer, efficient_mode) ==
    IF st.raised \/ layer \notin pkt.layers
    THEN st
    ELSE LET counted == [st.parser EXCEPT !.packet_counter = @ + 1,
                                          !.packet_counts[layer] = @ + 1]
             spread  == IF layer = "IP"
                        THEN [counted EXCEPT
                                !.ip_distribution[pkt.src] = @ + 1,
                                !.ip_distribution[pkt.dst] = @ + 1]
                        ELSE counted
         IN  IF LayerRaises(pkt, layer, efficient_mode)
             THEN [parser |-> spread, out |-> st.out, raised |-> TRUE]
             ELSE [parser |-> spread,
                   out    |-> st.out \o <<layer>> \o
                              (IF layer = "HTTP"
                               THEN (IF efficient_mode THEN <<>> ELSE <<"HTTP details">>)
                               ELSE HandlePayload(pkt, layer, efficient_mode)),
                   raised |-> FALSE]

RECURSIVE HandleLayers(_, _, _, _)
HandleLayers(i, st, pkt, efficient_mode) ==
    IF i > Len(LayerOrder) THEN st
    ELSE HandleLayers(i + 1, HandleLayer(st, pkt, LayerOrder[i], efficient_mode),
                      pkt, efficient_mode)

\* ------------------------------------------------------ handle_attack_alert

\* time.time() - self.last_message_time < 0.5, in ticks
WithinCooldown(current_time, last_message_time) ==
    2 * (current_time - last_message_time) < TicksPerSecond

\* if self.last_message_time and ... < 0.5: return
Suppressed(a, current_time) ==
    /\ a.last_message_time # None
    /\ a.last_message_time[1] # 0
    /\ WithinCooldown(current_time, a.last_message_time[1])

\* A handler that restarts the cooldown on every alert, written or not.
HandleAttackAlertRestarting(a, message, current_time) ==
    IF Suppressed(a, current_time)
    THEN [a EXCEPT !.last_message_time = Some(current_time)]
    ELSE [a EXCEPT !.attack_output_area = Append(@, message),
                   !.attack_pane = TRUE,
                   !.last_message_time = Some(current_time)]

\* handle_attack_alert on the app record a.
HandleAttackAlert(a, message, current_time) ==
    IF Suppressed(a, current_time) THEN a
    ELSE [a EXCEPT !.attack_output_area = Append(@, message),
                   !.attack_pane = TRUE,
                   !.last_message_time = Some(current_time)]

\* ------------------------------------------------------------------ actions

\* What the last operation was, for the properties below: its packet, the
\* detector, last_message_time, start_time and sniffing_active it found, what
\* detect_attacks returned or whether it raised, whether the alert was
\* written, the lines written to the output area.
Last(op, pkt, ret, raised, shown, out) ==
    [op |-> op, pkt |-> pkt, at |-> now', det |-> detector,
     lmt |-> app.last_message_time, start |-> parser.start_time,
     count |-> parser.packet_counter, seen |-> env.arp_seen,
     active |-> app.sniffing_active, ret |-> ret, raised |-> raised,
     shown |-> shown, out |-> out]

NoPkt == Pkt({}, "", {}, 0, "", "")

\* The ARP (link address, claimed address) pairs seen so far.
ArpSeen(seen, pkt) ==
    IF "ARP" \in pkt.layers THEN seen \cup {<<pkt.hwsrc, pkt.psrc>>} ELSE seen

\* Whether _detect_flood got as far as recording an event of the type: the
\* packet qualifies, has its IP layer, and the loop of detect_attacks had not
\* returned before the type's turn.
Recorded(pkt, event_type, ret) ==
    /\ \/ event_type = "syn" /\ "TCP" \in pkt.layers /\ "S" \in pkt.flags
       \/ event_type = "dns" /\ "DNS" \in pkt.layers /\ pkt.qr = 0
    /\ "IP" \in pkt.layers
    /\ event_type = "syn" \/ ret = None \/ ret[1].type # "syn"

\* start_sniffing(iface_name, packet_callback, is_sniffing_active): one more
\* capture loop, which hands every packet it captures to packet_callback
\* after is_sniffing_active() has returned true, and ends when it returns
\* false.  The loop keeps the efficient_mode its callback was made with;
\* passed says that the check was made for a packet not yet handed over.
StartSniffing(loops, efficient_mode) ==
    Append(loops, [efficient_mode |-> efficient_mode, passed |-> FALSE])

\* The loops that hand over a packet next: one that has passed the check for
\* it, or one that passes it now.
Delivering(loops, sniffing_active) ==
    {i \in DOMAIN loops : loops[i].passed \/ sniffing_active}

\* A capture loop hands one packet to parser.parse_packet, delay ticks after
\* the previous event, in the efficient_mode the loop was started with.
ParsePacket(pkt, delay) ==
    /\ now' = now + delay
    /\ \E i \in Delivering(handler.loops, app.sniffing_active) :
       \E current_time \in {now + delay} :
       \E start_time \in {IF current_time < parser.start_time
                          THEN current_time ELSE parser.start_time} :
       \E r \in {DetectAttacks(detector, pkt, start_time, current_time)} :
       \E alerted \in {IF r.ret # None
                       THEN HandleAttackAlert(app, r.ret[1], current_time)
                       ELSE app} :
       \E st \in {IF r.raised
                  THEN [parser |-> [parser EXCEPT !.start_time = start_time],
                        out |-> <<>>, raised |-> TRUE]
                  ELSE HandleLayers(1, [parser |-> [parser EXCEPT !.start_time = start_time],
                                        out |-> <<>>, raised |-> FALSE],
                                    pkt, handler.loops[i].efficient_mode)} :
       \E out \in {st.out \o (IF st.raised THEN <<"Error processing packet">> ELSE <<>>)} :
       \E shown \in {Len(alerted.attack_output_area) > Len(app.attack_output_area)} :
           /\ detector' = r.det
           /\ parser' = st.parser
           /\ handler' = [handler EXCEPT !.loops[i].passed = FALSE]
           /\ app' = [alerted EXCEPT !.output_area = @ \o out]
           /\ last' = Last("parse", pkt, r.ret, r.raised, shown, out)
           /\ env' = [env EXCEPT
                        !.plan = IF @ # <<>> THEN Tail(@) ELSE @,
                        !.steps = IF env.plan # <<>> THEN @ ELSE @ - 1,
                        !.arp_seen = ArpSeen(@, pkt),
                        !.recorded = [t \in {"syn", "dns"} |->
                            IF /\ Recorded(pkt, t, r.ret)
                               /\ ~r.raised \/ t = "syn" \/ ~Recorded(pkt, "syn", r.ret)
                            THEN [@[t] EXCEPT ![pkt.src] = Append(@, current_time)]
                            ELSE @[t]],
                        !.alert_times = IF shown THEN Append(@, current_time) ELSE @,
                        !.suppressed = IF r.ret # None /\ ~shown THEN @ + 1 ELSE @,
                        !.alerts = IF r.ret # None
                                   THEN @ \cup {<<r.ret[1].type, r.ret[1].source>>}
                                   ELSE @]
    /\ UNCHANGED widgets

\* The user types while steps are left, and never in the middle of a scripted
\* flood: the script runs from the first packet captured to its last.
UserMayType == env.steps > 0 /\ (env.plan = <<>> \/ ~app.sniffing_active)

\* start_sniffing_on_interface
StartSniffingOnInterface(iface_name, efficient_mode) ==
    /\ app' = [app EXCEPT !.output_area = <<"Sniffing on interface">>,
                          !.interfaces_pane = FALSE,
                          !.attack_pane = FALSE,
                          !.attack_output_area = <<>>,
                          !.sniffing_active = TRUE]
    /\ widgets' = [widgets EXCEPT !.plot.start_time = now,
                                  !.plot.tracking_started = TRUE,
                                  !.whois_cache = {}]
    /\ parser' = [parser EXCEPT !.ip_distribution = [a \in Addresses |-> 0],
                                !.packet_counts = [l \in Protocols |-> 0],
                                !.packet_counter = 0,
                                !.start_time = now]
    /\ handler' = [current_interface |-> Some(iface_name),
                   loops             |-> StartSniffing(handler.loops, efficient_mode)]
    /\ UNCHANGED detector

\* handle_sniff with the range test one too wide: an index one past the last
\* interface starts a capture.
HandleSniffOneTooWide(arg, efficient_mode) ==
    /\ UserMayType
    /\ arg # "none" => Len(handler.loops) < MaxLoops
    /\ env' = [env EXCEPT !.steps = @ - 1]
    /\ now' = now
    /\ IF arg # "none"
       THEN /\ StartSniffingOnInterface("eth0", efficient_mode)
            /\ last' = Last(IF arg = "ok" THEN "sniff" ELSE "sniff " \o arg,
                            NoPkt, None, FALSE, FALSE, <<"Sniffing on interface">>)
       ELSE /\ app' = [app EXCEPT !.output_area = Append(@, "No interface specified.")]
            /\ last' = Last("sniff " \o arg, NoPkt, None, FALSE, FALSE,
                            <<"No interface specified.">>)
            /\ UNCHANGED <<detector, parser, handler, widgets>>

\* handle_sniff: arg is "none" (no argument), "bad" (an index outside
\* 1..len(IFACES)) or "ok".
HandleSniff(arg, efficient_mode) ==
    /\ UserMayType
    /\ arg = "ok" => Len(handler.loops) < MaxLoops
    /\ env' = [env EXCEPT !.steps = @ - 1]
    /\ now' = now
    /\ IF arg = "ok"
       THEN /\ StartSniffingOnInterface("eth0", efficient_mode)
            /\ last' = Last("sniff", NoPkt, None, FALSE, FALSE,
                            <<"Sniffing on interface">>)
       ELSE LET line == IF arg = "none" THEN "No interface specified."
                        ELSE "Invalid interface index"
            IN  /\ app' = [app EXCEPT !.output_area = Append(@, line)]
                /\ last' = Last("sniff " \o arg, NoPkt, None, FALSE, FALSE, <<line>>)
                /\ UNCHANGED <<detector, parser, handler, widgets>>

\* handle_stop
HandleStop ==
    /\ UserMayType
    /\ env' = [env EXCEPT !.steps = @ - 1]
    /\ now' = now
    /\ app' = [app EXCEPT !.sniffing_active = FALSE]
    /\ widgets' = [widgets EXCEPT !.plot.data = <<>>, !.plot.tracking_started = FALSE]
    /\ last' = Last("stop", NoPkt, None, FALSE, FALSE, <<>>)
    /\ UNCHANGED <<detector, parser, handler>>

\* handle_clear
HandleClear ==
    /\ UserMayType
    /\ env' = [env EXCEPT !.steps = @ - 1]
    /\ now' = now
    /\ app' = [app EXCEPT !.output_area = <<>>,
                          !.attack_output_area = <<>>,
                          !.sniffing_active = FALSE,
                          !.interfaces_pane = TRUE,
                          !.attack_pane = FALSE]
    /\ last' = Last("clear", NoPkt, None, FALSE, FALSE, <<>>)
    /\ UNCHANGED <<detector, parser, handler, widgets>>

\* handle_command on an input line that is empty once stripped
HandleEmpty ==
    /\ UserMayType
    /\ env' = [env EXCEPT !.steps = @ - 1]
    /\ now' = now
    /\ last' = Last("empty", NoPkt, None, FALSE, FALSE, <<>>)
    /\ UNCHANGED <<detector, parser, app, handler, widgets>>

\* handle_unknown_command, reached through handle_command by any first word
\* that is not a command
HandleUnknownCommand ==
    /\ UserMayType
    /\ env' = [env EXCEPT !.steps = @ - 1]
    /\ now' = now
    /\ app' = [app EXCEPT !.output_area = Append(@, "Unknown or incomplete command")]
    /\ last' = Last("unknown", NoPkt, None, FALSE, FALSE,
                    <<"Unknown or incomplete command">>)
    /\ UNCHANGED <<detector, parser, handler, widgets>>

\* PacketFlowPlot.refresh_graph, called by the one-second timer set in
\* on_mount: the clock moves to the next whole second.  Nothing happens
\* before tracking has begun.
RefreshGraph ==
    /\ UserMayType
    /\ widgets.plot.tracking_started
    /\ env' = [env EXCEPT !.steps = @ - 1]
    /\ now' = (now \div TicksPerSecond + 1) * TicksPerSecond
    /\ \E current_time \in {(now \div TicksPerSecond + 1) * TicksPerSecond} :
       \E current_count \in {parser.packet_counter} :
       \E packets_this_second \in
               {current_count - widgets.plot.packet_count_last_second} :
           widgets' = [widgets EXCEPT
               !.plot.data = Append(@, <<current_time - widgets.plot.start_time,
                                         packets_this_second>>),
               !.plot.packet_count_last_second = current_count,
               !.plot.last_plot_time =
                   IF current_time - @ >= TicksPerSecond THEN current_time ELSE @]
    /\ last' = Last("refresh", NoPkt, None, FALSE, FALSE, <<>>)
    /\ UNCHANGED <<detector, parser, app, handler>>

\* update_widgets, called by the timer set in on_mount: of the three
\* refreshes only IPDistributionTable.refresh_table changes state, reading
\* whois_cache[ip] for every address counted, which enters the address in
\* the cache (the addresses modelled are fewer than the fifteen it shows).
UpdateWidgets ==
    /\ UserMayType
    /\ env' = [env EXCEPT !.steps = @ - 1]
    /\ now' = now
    /\ widgets' = [widgets EXCEPT
           !.whois_cache = @ \cup {a \in Addresses : parser.ip_distribution[a] > 0}]
    /\ last' = Last("update", NoPkt, None, FALSE, FALSE, <<>>)
    /\ UNCHANGED <<detector, parser, app, handler>>

\* A capture loop calls is_sniffing_active() for the packet it has captured
\* and finds the flag set: the packet is on its way to parse_packet.  The
\* step is taken on its own where a command can come between the check and
\* the call; elsewhere ParsePacket makes the check and the call at once.
LoopPasses(i) ==
    /\ UserMayType
    /\ app.sniffing_active
    /\ ~handler.loops[i].passed
    /\ now' = now
    /\ env' = [env EXCEPT !.steps = @ - 1]
    /\ handler' = [handler EXCEPT !.loops[i].passed = TRUE]
    /\ last' = Last("check", NoPkt, None, FALSE, FALSE, <<>>)
    /\ UNCHANGED <<detector, parser, app, widgets>>

\* A capture loop calls is_sniffing_active(), finds the flag cleared and ends.
LoopExits(i) ==
    /\ ~app.sniffing_active
    /\ ~handler.loops[i].passed
    /\ now' = now
    /\ handler' = [handler EXCEPT
                      !.loops = SubSeq(@, 1, i - 1) \o SubSeq(@, i + 1, Len(@))]
    /\ last' = Last("exit", NoPkt, None, FALSE, FALSE, <<>>)
    /\ UNCHANGED <<detector, parser, app, widgets, env>>

\* ------------------------------------------------------------ specifications

\* The traffic of a run that follows sessions rather than packets: a SYN of
\* the flooding source a second later, an ARP reply at once.
SessionArrivals ==
    {<<PureSyn(SrcA), TicksPerSecond>>, <<ArpReply("aa:01", "192.168.0.1"), 0>>}

\* Gaps between packets: none, one tick, one second, just over a window.
Delays == {0, 1, TicksPerSecond, InitDetector.time_window * TicksPerSecond + 1}

\* The packets that may arrive next: the head of the script, or any packet.
Arrivals ==
    IF env.plan # <<>> THEN {Head(env.plan)}
    ELSE IF env.steps > 0
         THEN (IF env.free = "any" THEN Packets \X Delays ELSE SessionArrivals)
    ELSE {}

\* The environment at the start: the script, the steps left, and a record of
\* what has happened (ARP pairs seen, every timestamp _detect_flood appended,
\* the times alerts were written, the alerts suppressed, the type and source
\* of every alert detect_attacks returned).
Env(plan, steps) ==
    [plan |-> plan, steps |-> steps, free |-> "any", arp_seen |-> {},
     recorded |-> [t \in {"syn", "dns"} |-> [s \in Sources |-> <<>>]],
     alert_times |-> <<>>, suppressed |-> 0, alerts |-> {}]

\* The state after the module is imported and the app constructed, the
\* detector's adjustable parameters set as in det.
ConstructedWith(det) ==
    /\ now = TicksPerSecond
    /\ detector = det
    /\ parser = InitParser(now)
    /\ app = [sniffing_active    |-> FALSE,
              last_message_time  |-> None,
              attack_pane        |-> FALSE,
              interfaces_pane    |-> TRUE,
              output_area        |-> <<>>,
              attack_output_area |-> <<>>]
    /\ handler = [current_interface |-> None, loops |-> <<>>]
    /\ widgets = [plot |-> [tracking_started |-> FALSE, data |-> <<>>,
                            start_time |-> now, packet_count_last_second |-> 0,
                            last_plot_time |-> now],
                  whois_cache |-> {}]
    /\ last = [op |-> "init", pkt |-> NoPkt, at |-> now, det |-> det,
               lmt |-> None, start |-> now, count |-> 0, seen |-> {},
               active |-> FALSE, ret |-> None,
               raised |-> FALSE, shown |-> FALSE, out |-> <<>>]

\* The state after construction with the parameters of the source.
Constructed == ConstructedWith(InitDetector)

Init ==
    /\ Constructed
    /\ env = Env(<<>>, MaxSteps)

Next ==
    \/ \E arg \in {"ok"}, e \in BOOLEAN : HandleSniff(arg, e)
    \/ \E arg \in {"none", "bad"} : HandleSniff(arg, FALSE)
    \/ HandleStop
    \/ HandleClear
    \/ HandleEmpty
    \/ HandleUnknownCommand
    \/ RefreshGraph
    \/ UpdateWidgets
    \/ \E i \in DOMAIN handler.loops : LoopPasses(i)
    \/ \E i \in DOMAIN handler.loops : LoopExits(i)
    \/ \E a \in Arrivals : ParsePacket(a[1], a[2])

Spec == Init /\ [][Next]_vars

\* Scripted traffic.  A flood is one packet sent again and again with no gap,
\* as simulate_syn_flood and simulate_dns_flood send it.
Rep(x, n) == [i \in 1..n |-> x]

\* The least count whose rate passes the filter of detect_attacks.
AlertCount == MinAlertRate * InitDetector.time_window

SynFlood == Rep(<<PureSyn(SrcA), 0>>, FloodLen)

DnsFlood ==
    Rep(<<DnsQuery(SrcA), 0>>, AlertCount - 1) \o Rep(<<DnsQuery(SrcB), 0>>, QuietLen)
        \o <<<<DnsQuery(SrcA), 0>>>>

BothFlood ==
    Rep(<<PureSyn(SrcA), 0>>, AlertCount - 1) \o Rep(<<DnsQuery(SrcA), 0>>, AlertCount - 1)
        \o Rep(<<DnsQuery(SrcB), 0>>, QuietLen) \o <<<<SynDns(SrcA), 0>>>>

\* simulate_dns_flood alone: queries of one source and no other DNS traffic.
DnsOnlyFlood == Rep(<<DnsQuery(SrcA), 0>>, FloodLen)

FloodPlans == {SynFlood, DnsFlood, BothFlood, DnsOnlyFlood}

InitFlood ==
    /\ Constructed
    /\ \E plan \in FloodPlans :
           env = Env(plan, 1 + MaxTail)

SpecFlood == InitFlood /\ [][Next]_vars

\* rate SYNs a second from one source, evenly spread over the ticks.
SteadyPlan(rate) ==
    [i \in 1..(rate * SteadySeconds) |->
        <<PureSyn(SrcA),
          (i * TicksPerSecond) \div rate - ((i - 1) * TicksPerSecond) \div rate>>]

InitSteady ==
    /\ Constructed
    /\ \E rate \in 1..MaxSteadyRate :
           env = [Env(SteadyPlan(rate), 2) EXCEPT !.free = "session"]

SpecSteady == InitSteady /\ [][Next]_vars

\* The adjustable parameters of AttackDetector set to other values: a window
\* of one second with a syn baseline of 0.12, a window of zero seconds, a syn
\* multiplier of zero.
TunedDetector ==
    [InitDetector EXCEPT !.time_window = 1, !.baseline_rates["syn"] = Dec(12, 1)]

ZeroWindowDetector == [InitDetector EXCEPT !.time_window = 0]

ZeroMultiplierDetector == [InitDetector EXCEPT !.threshold_multipliers["syn"] = 0]

Configurations == {TunedDetector, ZeroWindowDetector, ZeroMultiplierDetector}

\* TunedLen SYNs of one source, the first and the last spread ticks apart.
TunedFlood(spread) ==
    [i \in 1..TunedLen |->
        <<PureSyn(SrcA), (i * spread) \div TunedLen - ((i - 1) * spread) \div TunedLen>>]

InitTuned ==
    \E det \in Configurations :
        /\ ConstructedWith(det)
        /\ \E spread \in 0..(TicksPerSecond - 1) :
               env = Env(TunedFlood(spread), 1 + MaxTail)

SpecTuned == InitTuned /\ [][Next]_vars

\* One source that sends a burst and goes on at two SYNs a tick: when the
\* burst leaves the window the count falls at once and then stays.
SustainedPlan ==
    Rep(<<PureSyn(SrcA), 0>>, BurstLen) \o
        [i \in 1..(2 * SustainedTicks) |-> <<PureSyn(SrcA), i % 2>>]

InitSustained ==
    /\ Constructed
    /\ env = [Env(SustainedPlan, 2) EXCEPT !.free = "session"]

SpecSustained == InitSustained /\ [][Next]_vars

\* One flood captured, then whatever the user, the timers and the capture
\* loops do next, with little further traffic.
InitSessions ==
    /\ Constructed
    /\ env = [Env(SynFlood, SessionSteps) EXCEPT !.free = "session"]

SpecSessions == InitSessions /\ [][Next]_vars

\* ---------------------------------------------------------------------------
\* Properties.  They speak of the packet just parsed: its source, the types
\* whose event _detect_flood recorded, the rate and threshold computed for it.

Parsed == last.op = "parse" /\ ~last.raised

Inspected(event_type) == Parsed /\ Recorded(last.pkt, event_type, last.ret)

\* The number of the source's timestamps the window holds after the event.
CountOf(event_type) == Len(detector.event_history[event_type][last.pkt.src])

RateOf(event_type) == Dec(CountOf(event_type) * (Base \div detector.time_window), 1)

ThresholdOf(event_type) ==
    DMul(detector.baseline_rates[event_type],
         DInt(detector.threshold_multipliers[event_type]))

AlertFor(event_type) ==
    /\ last.ret # None
    /\ last.ret[1].type = event_type
    /\ last.ret[1].source = last.pkt.src

\* C1 as stated: for every qualifying packet an alert naming its source is
\* returned whenever the rate reaches the updated threshold, and none for the
\* type when the rate is below it.
C1_AlertIffThreshold ==
    \A t \in {"syn", "dns"} :
        Inspected(t) =>
            IF DGE(RateOf(t), ThresholdOf(t)) THEN AlertFor(t) ELSE ~AlertFor(t)

\* C1 amended: an alert naming the source is returned whenever the rate reaches
\* the updated threshold and is at least 5 events a second; none is returned
\* for the type when the rate is below the threshold or below 5.
C1_AlertIffThresholdAndFloor ==
    \A t \in {"syn", "dns"} :
        Inspected(t) =>
            IF /\ DGE(RateOf(t), ThresholdOf(t))
               /\ CountOf(t) >= MinAlertRate * detector.time_window
            THEN AlertFor(t) /\ last.ret[1].rate100 * detector.time_window = CountOf(t) * Base
            ELSE ~AlertFor(t)

\* A flood packet for which the alert is returned.
C1_Witness ==
    /\ Inspected("syn")
    /\ DGE(RateOf("syn"), ThresholdOf("syn"))
    /\ AlertFor("syn")

\* The timestamps of a sequence that are no older than the window at the
\* time of the event just parsed.
WithinWindow(events) ==
    SelectSeq(events, LAMBDA t : last.at - t <= WindowTicks(detector))

\* C2: after a qualifying event every timestamp retained in any source's
\* window of the type is at most time_window old, and the count used for the
\* rate (the one the new baseline and a returned alert carry) is the number of
\* timestamps ever recorded for the source that lie within that bound.
C2_WindowBound ==
    \A t \in {"syn", "dns"} :
        Inspected(t) =>
            /\ \A s \in Sources :
                   \A i \in DOMAIN detector.event_history[t][s] :
                       last.at - detector.event_history[t][s][i] <= WindowTicks(detector)
            /\ detector.event_history[t][last.pkt.src]
                   = WithinWindow(env.recorded[t][last.pkt.src])
            /\ detector.baseline_rates[t]
                   = DAdd(DMul(detector.ewma_alpha,
                               Dec(Len(WithinWindow(env.recorded[t][last.pkt.src]))
                                       * (Base \div detector.time_window), 1)),
                          DMul(DSub(DInt(1), detector.ewma_alpha),
                               DMul(last.det.baseline_rates[t],
                                    DSub(DInt(1), detector.decay_factor))))
            /\ AlertFor(t) =>
                   last.ret[1].rate100 * detector.time_window
                       = Len(WithinWindow(env.recorded[t][last.pkt.src])) * Base

\* A DNS query that evicts aged timestamps of its own source and of another.
C2_Witness ==
    /\ Inspected("dns")
    /\ \E s \in Sources \ {last.pkt.src} :
           Len(detector.event_history["dns"][s]) < Len(env.recorded["dns"][s])
    /\ CountOf("dns") < Len(env.recorded["dns"][last.pkt.src])

\* C3: on every qualifying event the baseline of the type is decayed first and
\* blended second, new = alpha * rate + (1 - alpha) * ((1 - decay) * old), and
\* the threshold the rate is compared against is new * multiplier of the type
\* (the comparison shows in the alert, which rates under 5 a second never get).
C3_DecayThenBlend ==
    \A t \in {"syn", "dns"} :
        Inspected(t) =>
            /\ detector.baseline_rates[t]
                   = DAdd(DMul(last.det.ewma_alpha, RateOf(t)),
                          DMul(DSub(DInt(1), last.det.ewma_alpha),
                               DMul(DSub(DInt(1), last.det.decay_factor),
                                    last.det.baseline_rates[t])))
            /\ CountOf(t) >= MinAlertRate * last.det.time_window =>
                   (AlertFor(t) <=>
                        DGE(RateOf(t),
                            DMul(detector.baseline_rates[t],
                                 DInt(last.det.threshold_multipliers[t]))))

\* An event that updates a baseline which earlier events had already moved.
C3_Witness ==
    \E t \in {"syn", "dns"} :
        /\ Inspected(t)
        /\ last.det.baseline_rates[t] # InitDetector.baseline_rates[t]
        /\ detector.baseline_rates[t] # last.det.baseline_rates[t]
        /\ AlertFor(t)

\* C4: a TCP segment with both SYN and ACK set records no timestamp in any
\* syn window and leaves the syn baseline as it was.
C4_SynAckNotCounted ==
    (/\ last.op = "parse"
     /\ "TCP" \in last.pkt.layers
     /\ {"S", "A"} \subseteq last.pkt.flags)
        => /\ detector.event_history["syn"] = last.det.event_history["syn"]
           /\ detector.baseline_rates["syn"] = last.det.baseline_rates["syn"]

\* C5: the alerts written to the attack output are at least half a second
\* apart, whatever their type or source; the cooldown runs from the last alert
\* written, not from the last alert requested; an alert-worthy packet is
\* written exactly when no alert was written in the half second before it.
C5_AlertCooldown ==
    /\ \A i, j \in DOMAIN env.alert_times :
           i < j => 2 * (env.alert_times[j] - env.alert_times[i]) >= TicksPerSecond
    /\ app.last_message_time =
           IF env.alert_times = <<>> THEN None
           ELSE Some(env.alert_times[Len(env.alert_times)])
    /\ (last.op = "parse" /\ last.ret # None) =>
           (last.shown <=> \/ last.lmt = None
                           \/ 2 * (last.at - last.lmt[1]) >= TicksPerSecond)

\* Two alerts written, one alert suppressed, and the last packet's alert
\* written because the half second had passed.
C5_Witness ==
    /\ Len(env.alert_times) >= 2
    /\ env.suppressed >= 1
    /\ last.op = "parse" /\ last.ret # None /\ last.shown

\* Whether an event of count timestamps in the window is alert-worthy for
\* the type, from the baseline the packet found: the rate is at least 5 a
\* second and reaches the multiplier times the updated baseline.
AlertWorthy(event_type, count) ==
    /\ count >= MinAlertRate * last.det.time_window
    /\ DGE(Dec(count * (Base \div last.det.time_window), 1),
           DMul(DAdd(DMul(last.det.ewma_alpha,
                          Dec(count * (Base \div last.det.time_window), 1)),
                     DMul(DSub(DInt(1), last.det.ewma_alpha),
                          DMul(DSub(DInt(1), last.det.decay_factor),
                               last.det.baseline_rates[event_type]))),
                DInt(last.det.threshold_multipliers[event_type])))

\* Whether the packet just parsed is alert-worthy for the type when looked at
\* on its own: it is an event of the type and, added to the timestamps of its
\* source still within the window, it makes an alert-worthy count.
WouldAlert(event_type) ==
    /\ \/ event_type = "syn" /\ "TCP" \in last.pkt.layers /\ "S" \in last.pkt.flags
       \/ event_type = "dns" /\ "DNS" \in last.pkt.layers /\ last.pkt.qr = 0
    /\ AlertWorthy(event_type,
                   1 + Len(WithinWindow(last.det.event_history[event_type][last.pkt.src])))

\* C6: detect_attacks returns at most one alert for a packet, looking at syn
\* before dns: a packet that is alert-worthy for both gets the SYN alert only,
\* the DNS alert is returned only when the SYN one is not, and no alert when
\* neither type is alert-worthy.
C6_SynBeforeDns ==
    Parsed =>
        /\ WouldAlert("syn") => last.ret # None /\ last.ret[1].type = "syn"
        /\ (~WouldAlert("syn") /\ WouldAlert("dns")) =>
               last.ret # None /\ last.ret[1].type = "dns"
        /\ (~WouldAlert("syn") /\ ~WouldAlert("dns")) => last.ret = None
        /\ Len(app.attack_output_area) <= Len(env.alert_times)

\* A packet that is both a SYN and a DNS query, alert-worthy for both types.
C6_Witness ==
    /\ Parsed
    /\ WouldAlert("syn") /\ WouldAlert("dns")
    /\ last.ret # None /\ last.ret[1].type = "syn"

\* C7: when start_sniffing_on_interface has begun a session the detector's
\* windows are empty and its baselines are the initial ones.
C7_DetectorResetOnStart ==
    last.op = "sniff" =>
        /\ \A t \in {"syn", "dns"} : \A s \in Sources : detector.event_history[t][s] = <<>>
        /\ detector.baseline_rates = InitDetector.baseline_rates

\* C8: an ARP packet that gives a link address a second, different IP address
\* raises a spoofing alert.
C8_ArpSpoofAlert ==
    (/\ last.op = "parse"
     /\ "ARP" \in last.pkt.layers
     /\ <<last.pkt.hwsrc, last.pkt.psrc>> \notin last.seen
     /\ \E ip \in {p[2] : p \in {q \in last.seen : q[1] = last.pkt.hwsrc}} :
            ip # last.pkt.psrc)
        => last.ret # None

\* A TCP SYN or a DNS query without an IP layer.
Malformed(pkt) ==
    /\ "IP" \notin pkt.layers
    /\ \/ "TCP" \in pkt.layers /\ "S" \in pkt.flags
       \/ "DNS" \in pkt.layers /\ pkt.qr = 0

\* C9: a malformed packet leaves the detector (windows and baselines), the
\* start time and the cooldown as they were, so that later packets are
\* inspected as if it had not arrived; it is reported on the output callback
\* as a processing error and nothing reaches the attack callback; the capture
\* goes on.
C9_MalformedHarmless ==
    (last.op = "parse" /\ Malformed(last.pkt)) =>
        /\ app.sniffing_active = last.active
        /\ handler.loops # <<>>
        /\ detector = last.det
        /\ parser.start_time = last.start
        /\ app.last_message_time = last.lmt
        /\ last.out = <<"Error processing packet">>
        /\ last.ret = None /\ ~last.shown

\* A malformed packet arriving at a detector that holds events already.
C9_Witness ==
    /\ last.op = "parse" /\ Malformed(last.pkt) /\ last.raised
    /\ \E t \in {"syn", "dns"} : \E s \in Sources : detector.event_history[t][s] # <<>>
    /\ detector.baseline_rates # InitDetector.baseline_rates

\* C10: SYN segments from one source at a steady low rate, one to three a
\* second for a minute, get no alert on any packet.
C10_SteadyNoAlert ==
    last.op = "parse" => last.ret = None /\ ~last.shown /\ env.alert_times = <<>>

\* The end of a steady minute, the window full and the rate above the
\* threshold of the decayed baseline, yet below 5 a second.
C10_Witness ==
    /\ Inspected("syn")
    /\ env.plan = <<>>
    /\ Len(env.recorded["syn"][SrcA]) >= SteadySeconds
    /\ CountOf("syn") >= detector.time_window
    /\ DGE(RateOf("syn"), ThresholdOf("syn"))
    /\ last.ret = None

\* The packet just parsed is a SYN of a flood on a fresh detector: no event
\* of another source or type was ever recorded, and every SYN of the source
\* is still within the window.
FreshSynFlood ==
    /\ Inspected("syn")
    /\ \A s \in Sources \ {last.pkt.src} : env.recorded["syn"][s] = <<>>
    /\ \A s \in Sources : env.recorded["dns"][s] = <<>>
    /\ CountOf("syn") = Len(env.recorded["syn"][last.pkt.src])

\* C11 as stated: in a SYN flood of one source on a fresh detector exactly one
\* alert is produced, on the first packet whose rate reaches the threshold.
C11_OneAlertAtFirstCrossing ==
    FreshSynFlood =>
        /\ Len(env.alert_times) + env.suppressed <= 1
        /\ DGE(RateOf("syn"), ThresholdOf("syn")) => Len(env.alert_times) = 1

\* C11 amended: the first alert is produced on the first packet whose rate
\* reaches the threshold and 5 events a second (the 25th SYN within the
\* window), on no earlier packet; every later packet of the flood is
\* alert-worthy too, and its alert is written when half a second has passed
\* since the last written one.
C11_FirstAlertAtFloor ==
    FreshSynFlood =>
        /\ CountOf("syn") < MinAlertRate * detector.time_window =>
               /\ last.ret = None
               /\ env.alert_times = <<>> /\ env.suppressed = 0
        /\ CountOf("syn") = MinAlertRate * detector.time_window =>
               /\ DGE(RateOf("syn"), ThresholdOf("syn"))
               /\ AlertFor("syn") /\ last.shown
               /\ env.alert_times = <<last.at>> /\ env.suppressed = 0
        /\ CountOf("syn") > MinAlertRate * detector.time_window =>
               /\ AlertFor("syn")
               /\ Len(env.alert_times) >= 1
               /\ last.shown <=> 2 * (last.at - last.lmt[1]) >= TicksPerSecond

\* A flood that goes on after its first alert: a second alert is written.
C11_Witness ==
    /\ FreshSynFlood
    /\ CountOf("syn") > MinAlertRate * detector.time_window
    /\ Len(env.alert_times) = 2 /\ env.suppressed >= 1
    /\ last.shown

FloodInWindow(event_type, source) ==
    /\ \A s \in Sources \ {source} : env.recorded[event_type][s] = <<>>
    /\ Len(WithinWindow(env.recorded[event_type][source]))
           >= MinAlertRate * detector.time_window

\* C13: a DNS query flood of one source, with no other DNS traffic, gets a
\* DNS alert for the source on at least one of its packets: when the whole
\* flood has arrived, 25 queries or more inside the window, an alert has been
\* returned.
C13_DnsFloodAlerts ==
    \A s \in Sources :
        (/\ last.op = "parse"
         /\ FloodInWindow("dns", s)
         /\ Len(env.recorded["dns"][s]) >= FloodLen)
            => <<"dns", s>> \in env.alerts

\* C14: a SYN flood of one source, with no other SYN traffic, has got a SYN
\* alert naming the source by the time 25 of its SYNs lie inside the window.
C14_SynFloodAlerts ==
    \A s \in Sources :
        (last.op = "parse" /\ FloodInWindow("syn", s)) => <<"syn", s>> \in env.alerts

\* The 25th SYN of the flood, and its alert.
C14_Witness ==
    /\ FloodInWindow("syn", SrcA)
    /\ Inspected("syn") /\ last.pkt.src = SrcA
    /\ CountOf("syn") = MinAlertRate * detector.time_window
    /\ AlertFor("syn")

\* C15: a packet that is an event of no type (no TCP SYN, no DNS query; a DNS
\* response for one) gets no alert and leaves every window and both baselines
\* as they were.
C15_NonQualifyingNoOp ==
    (/\ last.op = "parse"
     /\ ~("TCP" \in last.pkt.layers /\ "S" \in last.pkt.flags)
     /\ ~("DNS" \in last.pkt.layers /\ last.pkt.qr = 0))
        => /\ last.ret = None /\ ~last.shown
           /\ detector.event_history = last.det.event_history
           /\ detector.baseline_rates = last.det.baseline_rates
           /\ detector = last.det

\* A DNS response arriving at a detector that holds events and a moved
\* baseline of the dns type.
C15_Witness ==
    /\ last.op = "parse"
    /\ "DNS" \in last.pkt.layers /\ last.pkt.qr = 1
    /\ \E s \in Sources : detector.event_history["dns"][s] # <<>>
    /\ detector.baseline_rates["dns"] # InitDetector.baseline_rates["dns"]

\* C16: the baseline of each type is strictly positive in every reachable
\* state: it is the initial one or at least alpha times the rate of one event
\* in the window.
C16_BaselinePositive ==
    \A t \in {"syn", "dns"} :
        /\ detector.baseline_rates[t] # DInt(0)
        /\ \/ detector.baseline_rates[t] = InitDetector.baseline_rates[t]
           \/ DGE(detector.baseline_rates[t],
                  DMul(detector.ewma_alpha, Dec(Base \div detector.time_window, 1)))

\* A baseline that events have brought below a quarter of where it started.
C16_Witness ==
    \E t \in {"syn", "dns"} :
        /\ Inspected(t)
        /\ DGE(InitDetector.baseline_rates[t], DMul(DInt(4), detector.baseline_rates[t]))

\* The other event type.
OtherType(event_type) == IF event_type = "syn" THEN "dns" ELSE "syn"

\* C17: one baseline per type, shared by the sources: an event of a type from
\* any source moves the baseline of the type from where the last event of any
\* source left it, and a packet that is an event of one type only leaves the
\* baseline and all the windows of the other type as they were.
C17_SharedBaselinePerType ==
    \A t \in {"syn", "dns"} :
        Inspected(t) =>
            /\ DOMAIN detector.baseline_rates = {"syn", "dns"}
            /\ detector.baseline_rates[t]
                   = DAdd(DMul(Dec(20, 1), RateOf(t)),
                          DMul(Dec(56, 1), last.det.baseline_rates[t]))
            /\ ~Inspected(OtherType(t)) =>
                   /\ detector.baseline_rates[OtherType(t)]
                          = last.det.baseline_rates[OtherType(t)]
                   /\ detector.event_history[OtherType(t)]
                          = last.det.event_history[OtherType(t)]

\* An event of one source that moves the baseline an event of another source
\* had moved, while the other type holds a timestamp older than the window.
C17_Witness ==
    \E t \in {"syn", "dns"} :
        /\ Inspected(t) /\ ~Inspected(OtherType(t))
        /\ \E s \in Sources \ {last.pkt.src} : env.recorded[t][s] # <<>>
        /\ detector.baseline_rates[t] # last.det.baseline_rates[t]
        /\ \E s \in Sources :
               /\ detector.event_history[OtherType(t)][s] # <<>>
               /\ last.at - detector.event_history[OtherType(t)][s][1]
                      > WindowTicks(detector)

\* C18: the baseline of a type is updated, and a timestamp recorded, exactly
\* once for every packet that is an event of the type, alert or no alert, and
\* never for a packet that is not: a packet that is both a SYN and a DNS query
\* updates both baselines and both windows.
C18_OncePerQualifyingEvent ==
    (last.op = "parse" /\ "IP" \in last.pkt.layers) =>
        /\ ("TCP" \in last.pkt.layers /\ "S" \in last.pkt.flags) =>
               /\ detector.baseline_rates["syn"] # last.det.baseline_rates["syn"]
               /\ detector.event_history["syn"][last.pkt.src] # <<>>
               /\ detector.event_history["syn"][last.pkt.src][CountOf("syn")] = last.at
        /\ ("DNS" \in last.pkt.layers /\ last.pkt.qr = 0) =>
               /\ detector.baseline_rates["dns"] # last.det.baseline_rates["dns"]
               /\ detector.event_history["dns"][last.pkt.src] # <<>>
               /\ detector.event_history["dns"][last.pkt.src][CountOf("dns")] = last.at
        /\ ~("TCP" \in last.pkt.layers /\ "S" \in last.pkt.flags) =>
               detector.baseline_rates["syn"] = last.det.baseline_rates["syn"]
        /\ ~("DNS" \in last.pkt.layers /\ last.pkt.qr = 0) =>
               detector.baseline_rates["dns"] = last.det.baseline_rates["dns"]

\* C19: no packet is inspected by a detector whose window or multiplier is
\* zero or negative, such a detector being rejected at construction.
C19_BadConfigurationRejected ==
    last.op = "parse" =>
        /\ last.det.time_window > 0
        /\ \A t \in {"syn", "dns"} : last.det.threshold_multipliers[t] > 0
        /\ ~(last.raised /\ "IP" \in last.pkt.layers)

\* C20: each packet passed to parse_packet increases packet_counter by one.
C20_CounterCountsPackets ==
    last.op = "parse" => parser.packet_counter = last.count + 1

\* C21: when a sniff command has started capture, with or without a stop
\* before it, the protocol counts and the packet counter are zero, the IP
\* distribution and the WHOIS cache are empty, and the packet-flow plot holds
\* no data point of the session before.
C21_ResetOnNewSession ==
    last.op = "sniff" =>
        /\ \A l \in Protocols : parser.packet_counts[l] = 0
        /\ parser.packet_counter = 0
        /\ \A a \in Addresses : parser.ip_distribution[a] = 0
        /\ widgets.whois_cache = {}
        /\ widgets.plot.data = <<>>

\* The state handle_clear leaves the session in.
Cleared ==
    /\ ~app.sniffing_active
    /\ ~app.attack_pane
    /\ app.interfaces_pane

\* C22: after clear, sniffing_active is False, the attack pane is hidden and
\* the interface pane is shown, and all three stay so until the next sniff
\* command, also while packets of the stopped session are still delivered.
C22_ClearedUntilSniff ==
    [][/\ last'.op = "clear" => Cleared'
       /\ (Cleared /\ last'.op # "sniff") => Cleared']_vars

\* C23: ARP is a supported protocol: parse_packet on a well-formed packet with
\* an ARP layer adds one to the ARP count, writes the ARP summary and writes
\* no 'Error processing packet'; every protocol counted has a colour.
C23_ArpSupported ==
    (last.op = "parse" /\ "ARP" \in last.pkt.layers) =>
        /\ parser.packet_counts["ARP"] > 0
        /\ \E i \in DOMAIN last.out : last.out[i] = "ARP"
        /\ \A i \in DOMAIN last.out : last.out[i] # "Error processing packet"
        /\ \A l \in DOMAIN parser.packet_counts : l \in DEFAULT_COLORS

\* C24: detect_attacks never returns an alert whose reported rate is below 5.0
\* events a second: with the default window of 5 seconds, an alert for a
\* source and a type is returned only when the source's window of the type
\* holds at least 25 timestamps.
C24_NoAlertBelowFloor ==
    (last.op = "parse" /\ last.ret # None) =>
        /\ last.ret[1].rate100 >= MinAlertRate * Base
        /\ detector.time_window = InitDetector.time_window =>
               Len(detector.event_history[last.ret[1].type][last.ret[1].source]) >= 25

\* The alert returned for the 25th timestamp of a window, the threshold
\* having been within reach of the 24 timestamps before it already.
C24_Witness ==
    /\ last.op = "parse"
    /\ last.ret # None
    /\ last.ret[1].rate100 = MinAlertRate * Base
    /\ Len(detector.event_history[last.ret[1].type][last.ret[1].source]) = 25
    /\ DGE(Dec(24 * (Base \div last.det.time_window), 1),
           DMul(last.det.baseline_rates[last.ret[1].type],
                DInt(last.det.threshold_multipliers[last.ret[1].type])))

\* C25: at any time at most one capture loop feeds the shared parser and
\* detector, also after sniff while sniffing is active and after stop or
\* clear followed by sniff before the earlier loop has seen the cleared flag.
C25_OneCaptureLoop ==
    Cardinality(Delivering(handler.loops, app.sniffing_active)) <= 1

\* The number of timestamps of a sequence within the window at its j-th.
CountAt(events, j) ==
    Cardinality({i \in 1..j : events[j] - events[i] <= WindowTicks(detector)})

\* The count of the source's window has been n, give or take the second
\* event of a tick, for the last SettleEvents events before this one.
SettledAt(n) ==
    LET events == env.recorded["syn"][last.pkt.src]
    IN  /\ Len(events) > SettleEvents
        /\ \A j \in (Len(events) - SettleEvents)..Len(events) :
               CountAt(events, j) \in {n, n + 1}

\* C26: with the default parameters and one SYN source whose count in the
\* window stays at n >= 25, the syn threshold settles below the source's rate,
\* at about 0.91 times the rate, and from then on detect_attacks returns an
\* alert for every SYN of the source.
C26_SustainedAlerts ==
    Inspected("syn") =>
        \A n \in {CountOf("syn") - 1, CountOf("syn")} :
            (n >= 25 /\ SettledAt(n)) =>
                /\ AlertFor("syn")
                /\ DGE(DMul(RateOf("syn"), Dec(93, 1)), ThresholdOf("syn"))
                /\ DGE(ThresholdOf("syn"), DMul(RateOf("syn"), Dec(89, 1)))

\* An alert of the settled baseline, after the burst has left the window.
C26_Witness ==
    /\ Inspected("syn")
    /\ SettledAt(CountOf("syn"))
    /\ CountOf("syn") >= 25
    /\ CountOf("syn") + BurstLen <= Len(env.recorded["syn"][last.pkt.src])
    /\ AlertFor("syn")

\* The inputs that are turned down: sniff without an argument, sniff with an
\* index out of range, an empty line, an unknown command.
TurnedDown == {"sniff none", "sniff bad", "empty", "unknown"}

\* C27: a sniff command with no argument or with an index outside
\* 1..len(IFACES) starts no capture and leaves sniffing_active,
\* current_interface, the packet counts and the parser's start time as they
\* were; an empty line and an unknown command change no session state either.
\* All that changes is the one line written to the output area (none for the
\* empty line).
C27_TurnedDownChangesNothing ==
    [][last'.op \in TurnedDown =>
          /\ handler' = handler
          /\ parser' = parser
          /\ detector' = detector
          /\ widgets' = widgets
          /\ now' = now
          /\ [app' EXCEPT !.output_area = <<>>] = [app EXCEPT !.output_area = <<>>]
          /\ app'.output_area = app.output_area \o last'.out
          /\ Len(last'.out) = IF last'.op = "empty" THEN 0 ELSE 1]_vars

\* An index out of range typed in the middle of a session that has counted
\* packets.
C27_Witness ==
    /\ last.op = "sniff bad"
    /\ app.sniffing_active
    /\ handler.current_interface # None
    /\ parser.packet_counter > 0

\* C28: every data point refresh_graph appends to the packet-flow plot has a
\* packets-per-interval value of zero or more, whatever sniff, stop and clear
\* commands and packets came before, a second session after a first that
\* captured packets included.
C28_PlotValuesNonNegative ==
    \A i \in DOMAIN widgets.plot.data : widgets.plot.data[i][2] >= 0

\* The 'Total' row of PacketCountsTable.refresh_table.
Total(packet_counts) ==
    packet_counts["IP"] + packet_counts["TCP"] + packet_counts["UDP"]
        + packet_counts["DNS"] + packet_counts["DHCP"] + packet_counts["HTTP"]
        + packet_counts["NTP"] + packet_counts["ARP"]

\* C29: between packets, packet_counter equals the sum of the values of
\* packet_counts (the 'Total' row of the counts table), after any sequence of
\* parsed packets, packets that raise inside a layer handler, and resets by
\* start_sniffing_on_interface.
C29_CounterIsTotal ==
    parser.packet_counter = Total(parser.packet_counts)

\* A packet whose handler raised, the first of a session started after a
\* session that had counted a flood.
C29_Witness ==
    /\ last.op = "parse"
    /\ \E i \in DOMAIN last.out : last.out[i] = "Error processing packet"
    /\ last.count = 0
    /\ parser.packet_counter = 1
    /\ Len(env.recorded["syn"][SrcA]) >= FloodLen
====
